---- MODULE Spec2Model ----
(***************************************************************************)
(* Model of src/core/rate_limiting.py: five rate limiting dependencies     *)
(* (token bucket, leaky bucket, fixed window counter, sliding window log,  *)
(* sliding window counter) that keep their state in a shared Redis store.  *)
(*                                                                         *)
(* Each dependency is a plain sequence of Redis commands with local        *)
(* computation in between.  Every Redis command is one atomic step of the  *)
(* store; request handlers (processes) interleave between commands.        *)
(*                                                                         *)
(* Time is counted in ticks, TicksPerSecond ticks to the second, so that   *)
(* the truncations of the code (int(...), //) are real truncations.        *)
(***************************************************************************)
EXTENDS Integers, Sequences, FiniteSets, TLC

VARIABLES
    clock,      \* what time.time() returns, in ticks
    policy,     \* the keyword arguments of the dependency under study
    hashes,     \* Redis hashes:      key -> record of fields
    strs,       \* Redis strings:     key -> integer value
    expiry,     \* Redis key expiry:  key -> tick at which the key is removed
    zsets,      \* Redis sorted sets: key -> set of members (member = score)
    pc,         \* per handler: the place in the dependency it is at
    loc,        \* per handler: its local variables
    hist        \* observer: the decisions so far, <<time of the call, allowed>>

vars == <<clock, policy, hashes, strs, expiry, zsets, pc, loc, hist>>

store == <<hashes, strs, expiry, zsets>>

----------------------------------------------------------------------------
(* Bounds of the model *)

MaxTime == 4        \* the clock runs over 0..MaxTime ticks
MaxCap == 2         \* max_tokens / capacity range over 1..MaxCap
MaxRate == 2        \* refill_rate / leak_rate range over 1..MaxRate (per second)
MaxRequests == 2    \* max_requests ranges over 1..MaxRequests
MaxWindow == 2      \* window_seconds ranges over 1..MaxWindow

TicksPerSecond == 2

Procs == {1, 2}             \* concurrent request handlers
SeqProcs == {1}             \* one handler: sequential calls
user_id == "u1"

Min(a, b) == IF a <= b THEN a ELSE b
Max(a, b) == IF a >= b THEN a ELSE b

(* Python's int(x) of the rational n / d (d > 0): truncation toward zero. *)
int(n, d) == IF n >= 0 THEN n \div d ELSE -((-n) \div d)

Ready == {"idle", "allowed", "denied", "store_error"}

NoLocals == [dirty |-> FALSE]

----------------------------------------------------------------------------
(* The clock and the store's expiry of keys *)

Expired(t) == {k \in DOMAIN expiry : expiry[k] <= t}

(* Redis never shows a key whose expiry time has passed. *)
Expire(t) ==
    /\ strs' = [k \in DOMAIN strs \ Expired(t) |-> strs[k]]
    /\ expiry' = [k \in DOMAIN expiry \ Expired(t) |-> expiry[k]]

Tick ==
    /\ clock < MaxTime
    /\ clock' = clock + 1
    /\ Expire(clock + 1)
    /\ UNCHANGED <<policy, hashes, zsets, pc, loc, hist>>

(* time.time() is the wall clock: it may be set back. *)
ClockRegress ==
    /\ clock > 0
    /\ clock' = clock - 1
    /\ UNCHANGED <<policy, hashes, strs, expiry, zsets, pc, loc, hist>>

----------------------------------------------------------------------------
(* Token bucket *)

token_bucket_key(u) == "token_bucket:" \o u

(* a refill that forgets the cap of line 72 *)
token_bucket_refill_unclamped(tokens, last_refill_time, now) ==
    tokens + int((now - last_refill_time) * policy.refill_rate, TicksPerSecond)

(* lines 71-72: the refill *)
token_bucket_refill(tokens, last_refill_time, now) ==
    Min(policy.max_tokens,
        tokens + int((now - last_refill_time) * policy.refill_rate, TicksPerSecond))

(* an exhaustion check that is off by one *)
token_bucket_empty_below_zero(tokens) == tokens < 0

(* line 75: the exhaustion check *)
token_bucket_empty(tokens) == tokens <= 0

(* lines 59-67: hmget, and the defaults of an absent record *)
token_bucket_hmget(p) ==
    /\ pc[p] \in Ready
    /\ LET key == token_bucket_key(user_id) IN
       loc' = [loc EXCEPT ![p] =
                 IF key \in DOMAIN hashes
                 THEN [tokens |-> hashes[key].tokens,
                       last_refill_time |-> hashes[key].last_refill_time,
                       dirty |-> FALSE]
                 ELSE [tokens |-> policy.max_tokens,
                       last_refill_time |-> clock,
                       dirty |-> FALSE]]
    /\ pc' = [pc EXCEPT ![p] = "tb_refill"]
    /\ UNCHANGED <<clock, policy, hashes, strs, expiry, zsets>>

(* lines 70-79: read the clock, refill, deny or take one token *)
token_bucket_decide(p) ==
    /\ pc[p] = "tb_refill"
    /\ LET now == clock
           tokens == token_bucket_refill(loc[p].tokens, loc[p].last_refill_time, now)
       IN IF token_bucket_empty(tokens)
          THEN /\ pc' = [pc EXCEPT ![p] = "denied"]
               /\ loc' = [loc EXCEPT ![p] = NoLocals]
          ELSE /\ pc' = [pc EXCEPT ![p] = "tb_hmset"]
               /\ loc' = [loc EXCEPT ![p] = [tokens |-> tokens - 1,
                                             last_refill_time |-> now,
                                             dirty |-> FALSE]]
    /\ UNCHANGED <<clock, policy, hashes, strs, expiry, zsets>>

(* line 80: hmset; line 81: return Allowed *)
token_bucket_hmset(p) ==
    /\ pc[p] = "tb_hmset"
    /\ LET key == token_bucket_key(user_id)
           rec == [tokens |-> loc[p].tokens,
                   last_refill_time |-> loc[p].last_refill_time]
       IN hashes' = [k \in DOMAIN hashes \cup {key} |->
                        IF k = key THEN rec ELSE hashes[k]]
    /\ pc' = [pc EXCEPT ![p] = "allowed"]
    /\ loc' = [loc EXCEPT ![p] = [dirty |-> hashes' # hashes]]
    /\ UNCHANGED <<clock, policy, strs, expiry, zsets>>

----------------------------------------------------------------------------
(* Leaky bucket *)

leaky_bucket_key(u) == "leaky_bucket:" \o u

(* lines 120-121: the leak *)
leaky_bucket_leak(requests, last_check, now) ==
    Max(0, requests - int((now - last_check) * policy.leak_rate, TicksPerSecond))

(* a ceiling check that is off by one *)
leaky_bucket_full_above(requests) == requests > policy.capacity

(* line 124: the ceiling check *)
leaky_bucket_full(requests) == requests >= policy.capacity

(* lines 113-116: hmget, and the defaults of an absent record *)
leaky_bucket_hmget(p) ==
    /\ pc[p] \in Ready
    /\ LET key == leaky_bucket_key(user_id) IN
       loc' = [loc EXCEPT ![p] =
                 IF key \in DOMAIN hashes
                 THEN [requests |-> hashes[key].requests,
                       last_check |-> hashes[key].last_check,
                       dirty |-> FALSE]
                 ELSE [requests |-> 0, last_check |-> clock, dirty |-> FALSE]]
    /\ pc' = [pc EXCEPT ![p] = "lb_leak"]
    /\ UNCHANGED <<clock, policy, hashes, strs, expiry, zsets>>

(* lines 119-128: read the clock, leak, deny or add one request *)
leaky_bucket_decide(p) ==
    /\ pc[p] = "lb_leak"
    /\ LET now == clock
           requests == leaky_bucket_leak(loc[p].requests, loc[p].last_check, now)
       IN IF leaky_bucket_full(requests)
          THEN /\ pc' = [pc EXCEPT ![p] = "denied"]
               /\ loc' = [loc EXCEPT ![p] = NoLocals]
          ELSE /\ pc' = [pc EXCEPT ![p] = "lb_hmset"]
               /\ loc' = [loc EXCEPT ![p] = [requests |-> requests + 1,
                                             last_check |-> now,
                                             dirty |-> FALSE]]
    /\ UNCHANGED <<clock, policy, hashes, strs, expiry, zsets>>

(* line 129: hmset; line 130: return Allowed *)
leaky_bucket_hmset(p) ==
    /\ pc[p] = "lb_hmset"
    /\ LET key == leaky_bucket_key(user_id)
           rec == [requests |-> loc[p].requests, last_check |-> loc[p].last_check]
       IN hashes' = [k \in DOMAIN hashes \cup {key} |->
                        IF k = key THEN rec ELSE hashes[k]]
    /\ pc' = [pc EXCEPT ![p] = "allowed"]
    /\ loc' = [loc EXCEPT ![p] = [dirty |-> hashes' # hashes]]
    /\ UNCHANGED <<clock, policy, strs, expiry, zsets>>

----------------------------------------------------------------------------
(* Fixed window counter *)

(* a key that leaves the window id out *)
fixed_window_key_no_window(u, now) == "fixed_window:" \o u \o ":0"

(* line 164: the key embeds the window id int(time.time() // window_seconds) *)
fixed_window_key(u, now) ==
    "fixed_window:" \o u \o ":"
       \o ToString(now \div (policy.window_seconds * TicksPerSecond))

(* line 167: `requests and int(requests) >= max_requests`; None is falsy *)
fixed_window_exceeded(key) ==
    key \in DOMAIN strs /\ strs[key] >= policy.max_requests

(* Redis INCR: an absent key counts as 0 and is created without expiry *)
INCR(key) ==
    strs' = [k \in DOMAIN strs \cup {key} |->
                IF k = key
                THEN (IF key \in DOMAIN strs THEN strs[key] ELSE 0) + 1
                ELSE strs[k]]

(* Redis EXPIRE: sets the time to live of an existing key, in seconds *)
EXPIRE(key, seconds) ==
    expiry' = IF key \in DOMAIN strs
              THEN [k \in DOMAIN expiry \cup {key} |->
                       IF k = key THEN clock + seconds * TicksPerSecond
                       ELSE expiry[k]]
              ELSE expiry

(* lines 164-168: read the clock, GET the counter of the window, deny if full *)
fixed_window_get(p) ==
    /\ pc[p] \in Ready
    /\ LET key == fixed_window_key(user_id, clock) IN
       IF fixed_window_exceeded(key)
       THEN /\ pc' = [pc EXCEPT ![p] = "denied"]
            /\ loc' = [loc EXCEPT ![p] = NoLocals]
       ELSE /\ pc' = [pc EXCEPT ![p] = "fw_incr"]
            /\ loc' = [loc EXCEPT ![p] = [key |-> key, dirty |-> FALSE]]
    /\ UNCHANGED <<clock, policy, hashes, strs, expiry, zsets>>

(* line 171: INCR *)
fixed_window_incr(p) ==
    /\ pc[p] = "fw_incr"
    /\ INCR(loc[p].key)
    /\ pc' = [pc EXCEPT ![p] = "fw_expire"]
    /\ loc' = [loc EXCEPT ![p].dirty = TRUE]
    /\ UNCHANGED <<clock, policy, hashes, expiry, zsets>>

(* line 172: EXPIRE; line 173: return Allowed *)
fixed_window_expire(p) ==
    /\ pc[p] = "fw_expire"
    /\ EXPIRE(loc[p].key, policy.window_seconds)
    /\ pc' = [pc EXCEPT ![p] = "allowed"]
    /\ loc' = [loc EXCEPT ![p] = [dirty |-> TRUE]]
    /\ UNCHANGED <<clock, policy, hashes, strs, zsets>>

----------------------------------------------------------------------------
(* Sliding window log *)

sliding_window_log_key(u) == "sliding_window_log:" \o u

ZSet(key) == IF key \in DOMAIN zsets THEN zsets[key] ELSE {}

(* a sorted set that becomes empty is removed by Redis *)
ZPut(key, members) ==
    zsets' = [k \in (DOMAIN zsets \ {key}) \cup (IF members = {} THEN {} ELSE {key}) |->
                 IF k = key THEN members ELSE zsets[k]]

(* Redis ZREMRANGEBYSCORE key min max: removes the scores in [min, max] *)
ZREMRANGEBYSCORE(key, min, max) ==
    ZPut(key, {s \in ZSet(key) : ~(min <= s /\ s <= max)})

(* Redis ZADD key {member: score}; line 219 uses the timestamp as both, so  *)
(* adding a timestamp that is already a member adds nothing                 *)
ZADD(key, member) == ZPut(key, ZSet(key) \cup {member})

(* line 215 *)
sliding_window_log_full(request_count) == request_count >= policy.max_requests

(* lines 207-211: read the clock, purge the entries up to now - window_seconds *)
sliding_window_log_zremrangebyscore(p) ==
    /\ pc[p] \in Ready
    /\ LET now == clock IN
       /\ ZREMRANGEBYSCORE(sliding_window_log_key(user_id), 0,
                           now - policy.window_seconds * TicksPerSecond)
       /\ loc' = [loc EXCEPT ![p] = [now |-> now, dirty |-> zsets' # zsets]]
    /\ pc' = [pc EXCEPT ![p] = "swl_zcard"]
    /\ UNCHANGED <<clock, policy, hashes, strs, expiry>>

(* lines 214-216: ZCARD, deny if the log is full *)
sliding_window_log_zcard(p) ==
    /\ pc[p] = "swl_zcard"
    /\ LET request_count == Cardinality(ZSet(sliding_window_log_key(user_id))) IN
       IF sliding_window_log_full(request_count)
       THEN /\ pc' = [pc EXCEPT ![p] = "denied"]
            /\ loc' = [loc EXCEPT ![p] = [dirty |-> loc[p].dirty]]
       ELSE /\ pc' = [pc EXCEPT ![p] = "swl_zadd"]
            /\ loc' = loc
    /\ UNCHANGED <<clock, policy, hashes, strs, expiry, zsets>>

(* line 219: ZADD; line 220: return Allowed *)
sliding_window_log_zadd(p) ==
    /\ pc[p] = "swl_zadd"
    /\ ZADD(sliding_window_log_key(user_id), loc[p].now)
    /\ pc' = [pc EXCEPT ![p] = "allowed"]
    /\ loc' = [loc EXCEPT ![p] = [dirty |-> loc[p].dirty \/ zsets' # zsets]]
    /\ UNCHANGED <<clock, policy, hashes, strs, expiry>>

----------------------------------------------------------------------------
(* Sliding window counter *)

(* a key that leaves the identity out *)
sliding_window_counter_key_no_identity(u, timestamp) ==
    "sliding_window_counter:" \o ToString(timestamp \div policy.sub_window_seconds)

(* lines 257, 264: the key of the sub-window that holds `timestamp` (seconds) *)
sliding_window_counter_key(u, timestamp) ==
    "sliding_window_counter:" \o u \o ":"
       \o ToString(timestamp \div policy.sub_window_seconds)

(* line 268: range(window_start, now, sub_window_seconds) *)
sliding_window_counter_range(window_start, now) ==
    {t \in window_start..(now - 1) :
        (t - window_start) % policy.sub_window_seconds = 0}

(* line 271 *)
sliding_window_counter_full(total_requests) ==
    total_requests >= policy.max_requests

(* lines 256-258: read the clock, in whole seconds *)
sliding_window_counter_start(p) ==
    /\ pc[p] \in Ready
    /\ LET now == clock \div TicksPerSecond IN
       loc' = [loc EXCEPT ![p] = [now |-> now,
                                  timestamp |-> now - policy.window_seconds,
                                  total_requests |-> 0,
                                  dirty |-> FALSE]]
    /\ pc' = [pc EXCEPT ![p] = "swc_sum"]
    /\ UNCHANGED <<clock, policy, hashes, strs, expiry, zsets>>

(* lines 261-269: one round of the sum, a GET of one sub-window's counter *)
sliding_window_counter_get(p) ==
    /\ pc[p] = "swc_sum"
    /\ loc[p].timestamp \in
          sliding_window_counter_range(loc[p].now - policy.window_seconds, loc[p].now)
    /\ LET key == sliding_window_counter_key(user_id, loc[p].timestamp) IN
       loc' = [loc EXCEPT
                 ![p].total_requests = @ + (IF key \in DOMAIN strs THEN strs[key] ELSE 0),
                 ![p].timestamp = @ + policy.sub_window_seconds]
    /\ UNCHANGED <<clock, policy, hashes, strs, expiry, zsets, pc>>

(* lines 271-272: the sum is complete; deny if it reaches max_requests *)
sliding_window_counter_decide(p) ==
    /\ pc[p] = "swc_sum"
    /\ loc[p].timestamp \notin
          sliding_window_counter_range(loc[p].now - policy.window_seconds, loc[p].now)
    /\ IF sliding_window_counter_full(loc[p].total_requests)
       THEN /\ pc' = [pc EXCEPT ![p] = "denied"]
            /\ loc' = [loc EXCEPT ![p] = NoLocals]
       ELSE /\ pc' = [pc EXCEPT ![p] = "swc_incr"]
            /\ loc' = [loc EXCEPT ![p] =
                         [key |-> sliding_window_counter_key(user_id, loc[p].now),
                          dirty |-> FALSE]]
    /\ UNCHANGED <<clock, policy, hashes, strs, expiry, zsets>>

(* line 275: INCR of the current sub-window's counter *)
sliding_window_counter_incr(p) ==
    /\ pc[p] = "swc_incr"
    /\ INCR(loc[p].key)
    /\ pc' = [pc EXCEPT ![p] = "swc_expire"]
    /\ loc' = [loc EXCEPT ![p].dirty = TRUE]
    /\ UNCHANGED <<clock, policy, hashes, expiry, zsets>>

(* line 276: EXPIRE; line 277: return Allowed *)
sliding_window_counter_expire(p) ==
    /\ pc[p] = "swc_expire"
    /\ EXPIRE(loc[p].key, policy.window_seconds)
    /\ pc' = [pc EXCEPT ![p] = "allowed"]
    /\ loc' = [loc EXCEPT ![p] = [dirty |-> TRUE]]
    /\ UNCHANGED <<clock, policy, hashes, strs, zsets>>

----------------------------------------------------------------------------
(* Initial states: an empty store, every handler idle *)

EmptyStore ==
    /\ hashes = << >>
    /\ strs = << >>
    /\ expiry = << >>
    /\ zsets = << >>

InitCommon(procs) ==
    /\ clock = 0
    /\ EmptyStore
    /\ pc = [p \in procs |-> "idle"]
    /\ loc = [p \in procs |-> NoLocals]
    /\ hist = << >>

(* The observer: the decision of the call handler p makes at time t. *)
Observe(p, t) == hist' = Append(hist, <<t, pc'[p] # "denied">>)

CallTime(i) == hist[i][1]
Allowed(i) == hist[i][2]
SameInstant(n) == \A j \in 1..n : CallTime(j) = CallTime(1)

AllowedProcs == {p \in DOMAIN pc : pc[p] = "allowed"}
DeniedProcs == {p \in DOMAIN pc : pc[p] = "denied"}

----------------------------------------------------------------------------
(* Token bucket: the specifications *)

TBPolicies == [max_tokens : 1..MaxCap, refill_rate : 1..MaxRate]

(* SpecTB: concurrent token bucket calls at any times. *)
InitTB == InitCommon(Procs) /\ policy \in TBPolicies

NextTB ==
    \/ Tick
    \/ ClockRegress
    \/ \E p \in Procs : token_bucket_hmget(p) /\ UNCHANGED hist
    \/ \E p \in Procs : token_bucket_decide(p) /\ UNCHANGED hist
    \/ \E p \in Procs : token_bucket_hmset(p) /\ UNCHANGED hist

SpecTB == InitTB /\ [][NextTB]_vars

(* SpecTBRace: N = 2 * max_tokens handlers, one call each, all at the same *)
(* instant, against a fresh bucket.                                        *)
RaceProcs == 1..(2 * policy.max_tokens)

InitTBRace ==
    /\ policy \in TBPolicies
    /\ InitCommon(RaceProcs)

NextTBRace ==
    \/ \E p \in RaceProcs : pc[p] = "idle" /\ token_bucket_hmget(p) /\ UNCHANGED hist
    \/ \E p \in RaceProcs : token_bucket_decide(p) /\ UNCHANGED hist
    \/ \E p \in RaceProcs : token_bucket_hmset(p) /\ UNCHANGED hist

SpecTBRace == InitTBRace /\ [][NextTBRace]_vars

(* SpecTBSeq: one handler, so the calls are sequential; the clock advances. *)
TBSeqCalls == policy.max_tokens + 2

NextTBSeq ==
    \/ Tick
    \/ \E p \in SeqProcs :
         Len(hist) < TBSeqCalls /\ token_bucket_hmget(p) /\ UNCHANGED hist
    \/ \E p \in SeqProcs : token_bucket_decide(p) /\ Observe(p, clock)
    \/ \E p \in SeqProcs : token_bucket_hmset(p) /\ UNCHANGED hist

SpecTBSeq == InitTB /\ [][NextTBSeq]_vars

(* C1: N concurrent token bucket calls at one instant against a fresh      *)
(* bucket of capacity N/2: never more than N/2 are allowed, and once all   *)
(* have returned exactly N/2 were allowed.                                 *)
C1_RaceAdmitsExactlyHalf ==
    /\ Cardinality(AllowedProcs) <= policy.max_tokens
    /\ (AllowedProcs \cup DeniedProcs = DOMAIN pc
           => Cardinality(AllowedProcs) = policy.max_tokens)

(* C3: the persisted token count always satisfies 0 <= tokens <= capacity. *)
C3_TokensBounded ==
    \A k \in DOMAIN hashes :
        k = token_bucket_key(user_id)
           => /\ 0 <= hashes[k].tokens
              /\ hashes[k].tokens <= policy.max_tokens

(* a bucket drained to 0, written at a time the clock has since fallen     *)
(* behind of, with a call denied and another handler in mid-call           *)
C3_Witness ==
    /\ token_bucket_key(user_id) \in DOMAIN hashes
    /\ hashes[token_bucket_key(user_id)].tokens = 0
    /\ hashes[token_bucket_key(user_id)].last_refill_time > clock
    /\ \E p, q \in Procs : pc[p] = "denied" /\ pc[q] = "tb_hmset"

(* C6: sequential calls on a fresh identity: the first max_tokens calls at *)
(* one instant are allowed, the next one at that instant is denied, and a  *)
(* call 1 / refill_rate seconds after that denial is allowed.              *)
C6_TokenBucketThroughput ==
    LET c == policy.max_tokens IN
    /\ \A k \in 1..Min(c, Len(hist)) : SameInstant(k) => Allowed(k)
    /\ (Len(hist) >= c + 1 /\ SameInstant(c + 1)) => ~Allowed(c + 1)
    /\ ( /\ Len(hist) >= c + 2
         /\ SameInstant(c + 1)
         /\ (CallTime(c + 2) - CallTime(1)) * policy.refill_rate = TicksPerSecond )
       => Allowed(c + 2)

C6_Witness ==
    LET c == policy.max_tokens IN
    /\ c = MaxCap
    /\ Len(hist) = c + 2
    /\ SameInstant(c + 1)
    /\ (CallTime(c + 2) - CallTime(1)) * policy.refill_rate = TicksPerSecond
    /\ ~Allowed(c + 1)
    /\ Allowed(c + 2)
    /\ pc[1] = "allowed"

----------------------------------------------------------------------------
(* Leaky bucket: the specifications *)

LBPolicies == [capacity : 1..MaxCap, leak_rate : 1..MaxRate]

(* SpecLB: concurrent leaky bucket calls at any times. *)
InitLB == InitCommon(Procs) /\ policy \in LBPolicies

NextLB ==
    \/ Tick
    \/ ClockRegress
    \/ \E p \in Procs : leaky_bucket_hmget(p) /\ UNCHANGED hist
    \/ \E p \in Procs : leaky_bucket_decide(p) /\ UNCHANGED hist
    \/ \E p \in Procs : leaky_bucket_hmset(p) /\ UNCHANGED hist

SpecLB == InitLB /\ [][NextLB]_vars

(* SpecLBSeq: one handler, sequential calls; the clock advances. *)
LBSeqCalls == policy.capacity + 2

NextLBSeq ==
    \/ Tick
    \/ \E p \in SeqProcs :
         Len(hist) < LBSeqCalls /\ leaky_bucket_hmget(p) /\ UNCHANGED hist
    \/ \E p \in SeqProcs : leaky_bucket_decide(p) /\ Observe(p, clock)
    \/ \E p \in SeqProcs : leaky_bucket_hmset(p) /\ UNCHANGED hist

SpecLBSeq == InitLB /\ [][NextLBSeq]_vars

(* C4: the persisted fill level always satisfies 0 <= requests <= capacity. *)
C4_RequestsBounded ==
    \A k \in DOMAIN hashes :
        k = leaky_bucket_key(user_id)
           => /\ 0 <= hashes[k].requests
              /\ hashes[k].requests <= policy.capacity

(* a full bucket, written at a time the clock has since fallen behind of,  *)
(* with a call denied and another handler in mid-call                      *)
C4_Witness ==
    /\ leaky_bucket_key(user_id) \in DOMAIN hashes
    /\ hashes[leaky_bucket_key(user_id)].requests = policy.capacity
    /\ hashes[leaky_bucket_key(user_id)].last_check > clock
    /\ \E p, q \in Procs : pc[p] = "denied" /\ pc[q] = "lb_hmset"

(* C7: sequential calls on a fresh identity: the first capacity calls at   *)
(* one instant are allowed, the next one at that instant is denied, and a  *)
(* call capacity / leak_rate seconds later is allowed.                     *)
C7_LeakyBucketCeiling ==
    LET c == policy.capacity IN
    /\ \A k \in 1..Min(c, Len(hist)) : SameInstant(k) => Allowed(k)
    /\ (Len(hist) >= c + 1 /\ SameInstant(c + 1)) => ~Allowed(c + 1)
    /\ ( /\ Len(hist) >= c + 2
         /\ SameInstant(c + 1)
         /\ (CallTime(c + 2) - CallTime(1)) * policy.leak_rate = c * TicksPerSecond )
       => Allowed(c + 2)

C7_Witness ==
    LET c == policy.capacity IN
    /\ c = MaxCap
    /\ Len(hist) = c + 2
    /\ SameInstant(c + 1)
    /\ (CallTime(c + 2) - CallTime(1)) * policy.leak_rate = c * TicksPerSecond
    /\ ~Allowed(c + 1)
    /\ Allowed(c + 2)
    /\ pc[1] = "allowed"

----------------------------------------------------------------------------
(* Fixed window counter: the specifications *)

WindowTicks == policy.window_seconds * TicksPerSecond

(* the calls admitted with a call time in the trailing span (t - span, t] *)
AdmittedIn(t, span) ==
    Cardinality({i \in 1..Len(hist) :
                    Allowed(i) /\ t - span < CallTime(i) /\ CallTime(i) <= t})

FWPolicies == [max_requests : 1..MaxRequests, window_seconds : 1..MaxWindow]

(* SpecFW: concurrent fixed window calls; the clock advances. *)
InitFW == InitCommon(Procs) /\ policy \in FWPolicies

NextFW ==
    \/ Tick
    \/ \E p \in Procs : fixed_window_get(p) /\ UNCHANGED hist
    \/ \E p \in Procs : fixed_window_incr(p) /\ UNCHANGED hist
    \/ \E p \in Procs : fixed_window_expire(p) /\ UNCHANGED hist

SpecFW == InitFW /\ [][NextFW]_vars

(* SpecFWSeq: one handler, sequential calls; the clock advances. *)
FWSeqCalls == 2 * policy.max_requests + 1

NextFWSeq ==
    \/ Tick
    \/ \E p \in SeqProcs :
         Len(hist) < FWSeqCalls /\ fixed_window_get(p) /\ Observe(p, clock)
    \/ \E p \in SeqProcs : fixed_window_incr(p) /\ UNCHANGED hist
    \/ \E p \in SeqProcs : fixed_window_expire(p) /\ UNCHANGED hist

SpecFWSeq == InitFW /\ [][NextFWSeq]_vars

(* C2: under every interleaving of concurrent fixed window calls, the      *)
(* counter of a window never exceeds max_requests.                         *)
C2_WindowCountBounded ==
    \A k \in DOMAIN strs : strs[k] <= policy.max_requests

WindowId(i) == CallTime(i) \div WindowTicks

(* calls i+1 .. i+max_requests are the first calls of their window and are *)
(* made at its last instant; the next max_requests calls are made at the   *)
(* first instant of the next window                                        *)
BoundaryBurstAt(i) ==
    LET m == policy.max_requests
        t == CallTime(i + 1)
    IN /\ Len(hist) >= i + 2 * m
       /\ t % WindowTicks = WindowTicks - 1
       /\ i > 0 => WindowId(i) < WindowId(i + 1)
       /\ \A j \in (i + 1)..(i + m) : CallTime(j) = t
       /\ \A j \in (i + m + 1)..(i + 2 * m) : CallTime(j) = t + 1

(* C8: sequential calls: max_requests calls at the last instant of a       *)
(* window and max_requests calls at the first instant of the next window   *)
(* are all allowed, and the first call of a new window id is always        *)
(* allowed whatever the count of the window before.                        *)
C8_BoundaryBurstAllowed ==
    /\ \A i \in 0..Len(hist) :
          BoundaryBurstAt(i) =>
             \A j \in (i + 1)..(i + 2 * policy.max_requests) : Allowed(j)
    /\ \A i \in 1..Len(hist) :
          (i = 1 \/ WindowId(i - 1) < WindowId(i)) => Allowed(i)

(* 2 * max_requests calls admitted within less than window_seconds, after  *)
(* a call in an earlier window                                             *)
C8_Witness ==
    /\ policy.max_requests = MaxRequests
    /\ BoundaryBurstAt(1)
    /\ \A j \in 2..(1 + 2 * policy.max_requests) : Allowed(j)
    /\ AdmittedIn(CallTime(Len(hist)), WindowTicks) = 2 * policy.max_requests
    /\ pc[1] = "allowed"

----------------------------------------------------------------------------
(* Sliding window log: the specifications *)

(* SpecSWL: concurrent sliding window log calls; the clock advances. *)
NextSWL ==
    \/ Tick
    \/ \E p \in Procs : sliding_window_log_zremrangebyscore(p) /\ UNCHANGED hist
    \/ \E p \in Procs : sliding_window_log_zcard(p) /\ UNCHANGED hist
    \/ \E p \in Procs : sliding_window_log_zadd(p) /\ UNCHANGED hist

SpecSWL == InitFW /\ [][NextSWL]_vars

(* SpecSWLSeq: one handler, sequential calls at non-decreasing times. *)
SWLSeqCalls == policy.max_requests + 2

NextSWLSeq ==
    \/ Tick
    \/ \E p \in SeqProcs :
         /\ Len(hist) < SWLSeqCalls
         /\ sliding_window_log_zremrangebyscore(p)
         /\ UNCHANGED hist
    \/ \E p \in SeqProcs : sliding_window_log_zcard(p) /\ Observe(p, loc[p].now)
    \/ \E p \in SeqProcs : sliding_window_log_zadd(p) /\ UNCHANGED hist

SpecSWLSeq == InitFW /\ [][NextSWLSeq]_vars

(* C5: a call that is denied has left every persisted record as it was:    *)
(* none of its own store commands changed the store.                       *)
C5_DeniedCallWroteNothing ==
    \A p \in DOMAIN pc : pc[p] = "denied" => ~loc[p].dirty

(* the calls admitted before call i whose time is still inside the window  *)
(* that trails call i                                                      *)
AdmittedBefore(i) ==
    Cardinality({j \in 1..(i - 1) :
                    Allowed(j) /\ CallTime(i) - WindowTicks < CallTime(j)})

(* C9: sequential calls at non-decreasing times (equal times permitted):   *)
(* no trailing interval of window_seconds holds more than max_requests     *)
(* admitted calls; a call is denied while max_requests admitted calls are  *)
(* inside its window and allowed once the oldest has slid out.             *)
C9_SlidingLogExact ==
    /\ \A t \in 0..MaxTime : AdmittedIn(t, WindowTicks) <= policy.max_requests
    /\ \A i \in 1..Len(hist) :
          Allowed(i) <=> AdmittedBefore(i) < policy.max_requests

----------------------------------------------------------------------------
(* Sliding window counter: the specifications *)

SWCPolicies ==
    {pol \in [max_requests : 1..MaxRequests,
              window_seconds : 1..MaxWindow,
              sub_window_seconds : 1..MaxWindow] :
        pol.window_seconds % pol.sub_window_seconds = 0}

InitSWC == InitCommon(Procs) /\ policy \in SWCPolicies

(* SpecSWCSeq: one handler, sequential calls; the clock advances. *)
SWCSeqCalls == 2 * policy.max_requests + 1

NextSWCSeq ==
    \/ Tick
    \/ \E p \in SeqProcs :
         /\ Len(hist) < SWCSeqCalls
         /\ sliding_window_counter_start(p)
         /\ UNCHANGED hist
    \/ \E p \in SeqProcs : sliding_window_counter_get(p) /\ UNCHANGED hist
    \/ \E p \in SeqProcs :
         sliding_window_counter_decide(p) /\ Observe(p, loc[p].now * TicksPerSecond)
    \/ \E p \in SeqProcs : sliding_window_counter_incr(p) /\ UNCHANGED hist
    \/ \E p \in SeqProcs : sliding_window_counter_expire(p) /\ UNCHANGED hist

SpecSWCSeq == InitSWC /\ [][NextSWCSeq]_vars

(* C10: sequential calls, sub_window_seconds dividing window_seconds: the  *)
(* requests admitted in any trailing span of window_seconds never exceed   *)
(* max_requests by more than one sub-window's worth, and so never exceed   *)
(* 2 * max_requests.                                                       *)
C10_SlidingCounterBound ==
    \A t \in 0..MaxTime : AdmittedIn(t, WindowTicks) <= 2 * policy.max_requests

Counter(key) == IF key \in DOMAIN strs THEN strs[key] ELSE 0

RECURSIVE SumCounters(_)
SumCounters(keys) ==
    IF keys = {} THEN 0
    ELSE LET k == CHOOSE x \in keys : TRUE
         IN Counter(k) + SumCounters(keys \ {k})

(* the keys of the sub-windows that hold a time of [now - window_seconds, now) *)
SubWindowsTouched(now) ==
    {sliding_window_counter_key(user_id, t) :
        t \in (now - policy.window_seconds)..(now - 1)}

(* the sum of lines 261-269 is complete *)
SumComplete(p) ==
    /\ pc[p] = "swc_sum"
    /\ loc[p].timestamp \notin
          sliding_window_counter_range(loc[p].now - policy.window_seconds, loc[p].now)

(* C11: the total a sliding window counter decision compares against       *)
(* max_requests is the sum of the counters of every sub-window that holds  *)
(* a time of [now - window_seconds, now), the current sub-window included  *)
(* whenever now is not a multiple of sub_window_seconds.  (Stated of a     *)
(* call during which the clock has not moved, so that the store it summed  *)
(* is the store of the state.)                                             *)
C11_SumCoversWindow ==
    \A p \in DOMAIN pc :
        (SumComplete(p) /\ clock = loc[p].now * TicksPerSecond)
           => loc[p].total_requests = SumCounters(SubWindowsTouched(loc[p].now))

----------------------------------------------------------------------------
(* Expiry of the records *)

Quiescent == \A p \in DOMAIN pc : pc[p] \in Ready

(* C12: every record written for an identity carries a store-side expiry   *)
(* (so that the store removes it once the identity stops calling): when no *)
(* call is in progress, every key of the store has an expiry.              *)
C12_EveryRecordExpires ==
    Quiescent =>
       /\ \A k \in DOMAIN hashes : k \in DOMAIN expiry
       /\ \A k \in DOMAIN zsets : k \in DOMAIN expiry
       /\ \A k \in DOMAIN strs : k \in DOMAIN expiry

----------------------------------------------------------------------------
(* Policies with a non-positive parameter *)

FWAnyPolicies == [max_requests : 0..MaxRequests, window_seconds : 1..MaxWindow]

(* SpecFWAny: concurrent fixed window calls, max_requests = 0 included. *)
InitFWAny == InitCommon(Procs) /\ policy \in FWAnyPolicies

SpecFWAny == InitFWAny /\ [][NextFW]_vars

InvalidPolicy == \E f \in DOMAIN policy : policy[f] <= 0

(* C13: a call with a non-positive policy parameter ends in a              *)
(* configuration error, neither allowed nor denied, and performs no store  *)
(* read or write: no handler gets past the start of the dependency and the *)
(* store stays as it was.                                                  *)
C13_InvalidPolicyRejected ==
    InvalidPolicy =>
       /\ \A p \in DOMAIN pc : pc[p] \in {"idle", "config_error"}
       /\ EmptyStore

----------------------------------------------------------------------------
(* Store failures: a Redis command that cannot reach the store, or times   *)
(* out, raises (redis.exceptions.ConnectionError, TimeoutError).  The      *)
(* dependencies hold no try/except, so the exception leaves the call.      *)

(* a handler that catches the error and lets the request through *)
redis_error_swallowed(p, command) ==
    /\ pc' = [pc EXCEPT ![p] = "allowed"]
    /\ loc' = [loc EXCEPT ![p] = [dirty |-> FALSE, failed |-> command]]

(* the exception propagates out of the dependency: neither the return of   *)
(* Allowed nor the HTTPException 429 is reached                            *)
redis_error_propagates(p, command) ==
    /\ pc' = [pc EXCEPT ![p] = "store_error"]
    /\ loc' = [loc EXCEPT ![p] = [dirty |-> FALSE, failed |-> command]]

Failed(p) == "failed" \in DOMAIN loc[p]

(* line 60: hmget raises *)
token_bucket_hmget_raises(p) ==
    /\ pc[p] \in Ready
    /\ redis_error_propagates(p, "hmget")
    /\ UNCHANGED <<clock, policy, hashes, strs, expiry, zsets>>

(* line 80: hmset raises; a command that timed out may have been applied *)
token_bucket_hmset_raises(p) ==
    /\ pc[p] = "tb_hmset"
    /\ redis_error_propagates(p, "hmset")
    /\ \/ UNCHANGED hashes
       \/ LET key == token_bucket_key(user_id)
              rec == [tokens |-> loc[p].tokens,
                      last_refill_time |-> loc[p].last_refill_time]
          IN hashes' = [k \in DOMAIN hashes \cup {key} |->
                           IF k = key THEN rec ELSE hashes[k]]
    /\ UNCHANGED <<clock, policy, strs, expiry, zsets>>

(* line 165: get raises *)
fixed_window_get_raises(p) ==
    /\ pc[p] \in Ready
    /\ redis_error_propagates(p, "get")
    /\ UNCHANGED <<clock, policy, hashes, strs, expiry, zsets>>

(* line 171: incr raises; a command that timed out may have been applied *)
fixed_window_incr_raises(p) ==
    /\ pc[p] = "fw_incr"
    /\ redis_error_propagates(p, "incr")
    /\ (UNCHANGED strs \/ INCR(loc[p].key))
    /\ UNCHANGED <<clock, policy, hashes, expiry, zsets>>

(* line 172: expire raises; a command that timed out may have been applied *)
fixed_window_expire_raises(p) ==
    /\ pc[p] = "fw_expire"
    /\ redis_error_propagates(p, "expire")
    /\ (UNCHANGED expiry \/ EXPIRE(loc[p].key, policy.window_seconds))
    /\ UNCHANGED <<clock, policy, hashes, strs, zsets>>

(* SpecFail: handler 1 calls the token bucket, handler 2 the fixed window  *)
(* counter; any of their store commands may fail.                          *)
FailPolicies ==
    [max_tokens : {MaxCap}, refill_rate : {1},
     max_requests : {MaxRequests}, window_seconds : {1}]

InitFail == InitCommon(Procs) /\ policy \in FailPolicies

NextFail ==
    \/ Tick
    \/ token_bucket_hmget(1) /\ UNCHANGED hist
    \/ token_bucket_decide(1) /\ UNCHANGED hist
    \/ token_bucket_hmset(1) /\ UNCHANGED hist
    \/ token_bucket_hmget_raises(1) /\ UNCHANGED hist
    \/ token_bucket_hmset_raises(1) /\ UNCHANGED hist
    \/ fixed_window_get(2) /\ UNCHANGED hist
    \/ fixed_window_incr(2) /\ UNCHANGED hist
    \/ fixed_window_expire(2) /\ UNCHANGED hist
    \/ fixed_window_get_raises(2) /\ UNCHANGED hist
    \/ fixed_window_incr_raises(2) /\ UNCHANGED hist
    \/ fixed_window_expire_raises(2) /\ UNCHANGED hist

SpecFail == InitFail /\ [][NextFail]_vars

----------------------------------------------------------------------------
(* Clock regression *)

(* C15: a token bucket or leaky bucket call that observes a current time   *)
(* earlier than the stored last_refill_time / last_check takes the elapsed *)
(* time as zero: the refill does not lower the token count and the leak    *)
(* does not raise the fill level.                                          *)
C15_RegressionClamped ==
    \A p \in DOMAIN pc :
        /\ ( /\ pc[p] = "tb_refill"
             /\ token_bucket_key(user_id) \in DOMAIN hashes
             /\ hashes[token_bucket_key(user_id)].last_refill_time
                   = loc[p].last_refill_time
             /\ clock < loc[p].last_refill_time )
           => token_bucket_refill(loc[p].tokens, loc[p].last_refill_time, clock)
                 >= Min(policy.max_tokens, loc[p].tokens)
        /\ ( /\ pc[p] = "lb_leak"
             /\ leaky_bucket_key(user_id) \in DOMAIN hashes
             /\ hashes[leaky_bucket_key(user_id)].last_check = loc[p].last_check
             /\ clock < loc[p].last_check )
           => leaky_bucket_leak(loc[p].requests, loc[p].last_check, clock)
                 <= loc[p].requests

----------------------------------------------------------------------------
(* Sliding window log: the boundary of the purge and the size of the log *)

(* the times at which calls before call i were admitted that are not       *)
(* strictly less than the time of call i minus window_seconds              *)
KeptByStrictPurge(i) ==
    {CallTime(j) : j \in {k \in 1..(i - 1) :
                            Allowed(k) /\ CallTime(k) >= CallTime(i) - WindowTicks}}

(* C16: the purge removes only the entries strictly less than              *)
(* now - window_seconds: an entry at exactly now - window_seconds is kept  *)
(* and counted, so a call made when max_requests such entries are logged,  *)
(* the oldest at exactly now - window_seconds, is denied.                  *)
C16_PurgeIsStrict ==
    \A i \in 1..Len(hist) :
        Cardinality(KeptByStrictPurge(i)) >= policy.max_requests => ~Allowed(i)

(* C19: under any interleaving of sliding window log calls with a fixed    *)
(* policy, the timestamp set holds at most max_requests entries.           *)
C19_LogBounded ==
    Cardinality(ZSet(sliding_window_log_key(user_id))) <= policy.max_requests

----------------------------------------------------------------------------
(* Token bucket: successive writes of the record *)

(* the refill accrued between two stored values of last_refill_time *)
Accrued(from, to) ==
    Max(0, int((to - from) * policy.refill_rate, TicksPerSecond))

(* C17: each write of the token bucket record stores a token count no      *)
(* greater than the count stored before plus the refill accrued since the  *)
(* last_refill_time stored before; with no time elapsed the stored count   *)
(* never goes up, under any interleaving.                                  *)
C17_WritesNeverGainTokens ==
    [][LET key == token_bucket_key(user_id) IN
       (key \in DOMAIN hashes /\ hashes' # hashes)
          => hashes'[key].tokens
                <= hashes[key].tokens
                   + Accrued(hashes[key].last_refill_time,
                             hashes'[key].last_refill_time)]_vars

----------------------------------------------------------------------------
(* Fixed window counter and sliding window counter: the keys *)

(* the keys the fixed window counter builds for identity u over the run *)
FixedWindowKeys(u) == {fixed_window_key(u, t) : t \in 0..MaxTime}

(* the keys the sliding window counter builds for identity u over the run: *)
(* those it reads (from now - window_seconds) and the one it increments    *)
SlidingWindowCounterKeys(u) ==
    {sliding_window_counter_key(u, t) :
        t \in (0 - policy.window_seconds)..(MaxTime \div TicksPerSecond)}

(* C18: the increment and the setting of the expiry are one atomic step:   *)
(* in no reachable state does a window counter key exist without expiry.   *)
C18_CounterAlwaysHasExpiry ==
    \A k \in DOMAIN strs \cap FixedWindowKeys(user_id) : k \in DOMAIN expiry

(* C20: at every time the unexpired sliding window counter keys of one     *)
(* identity number at most window_seconds / sub_window_seconds.            *)
C20_KeysBounded ==
    Cardinality(DOMAIN strs \cap SlidingWindowCounterKeys(user_id))
          * policy.sub_window_seconds
       <= policy.window_seconds

----------------------------------------------------------------------------
(* Token bucket: the reference bucket with fractional tokens *)

(* one token, in the unit of the reference bucket: a tick of time at       *)
(* refill_rate 1 accrues one unit, so every fraction is a whole number     *)
Token == TicksPerSecond

(* The reference bucket after the first i calls of hist: absent before the *)
(* first call, so (capacity, now) at the first call; the count after the   *)
(* refill is min(capacity, tokens + elapsed * refill_rate), no rounding;   *)
(* a call is denied when that count is <= 0, else one token is taken and   *)
(* (tokens, now) is kept.                                                  *)
RECURSIVE reference_bucket(_)
reference_refilled(i) ==
    LET prev == IF i = 1
                THEN [tokens |-> policy.max_tokens * Token,
                      last_refill_time |-> CallTime(1)]
                ELSE reference_bucket(i - 1)
    IN  Min(policy.max_tokens * Token,
            prev.tokens + (CallTime(i) - prev.last_refill_time) * policy.refill_rate)

reference_allows(i) == reference_refilled(i) > 0

reference_bucket(i) ==
    IF reference_allows(i)
    THEN [tokens |-> reference_refilled(i) - Token, last_refill_time |-> CallTime(i)]
    ELSE IF i = 1
         THEN [tokens |-> policy.max_tokens * Token, last_refill_time |-> CallTime(1)]
         ELSE reference_bucket(i - 1)

(* C22: for sequential token bucket calls with non-decreasing times, every *)
(* decision equals the decision of the reference bucket, which keeps the   *)
(* fractions of a token that elapsed time accrues.                         *)
C22_MatchesFractionalReference ==
    \A i \in 1..Len(hist) : Allowed(i) = reference_allows(i)

----------------------------------------------------------------------------
(* Sliding window counter: admitted requests that a later sum must include *)

(* the second in which the i-th call read the clock *)
CallSecond(i) == CallTime(i) \div TicksPerSecond

(* the earlier admitted calls that lie inside the window of a call at now  *)
(* and in a sub-window before the one that holds now                       *)
AdmittedInEarlierSubWindows(now) ==
    {i \in 1..Len(hist) :
        /\ Allowed(i)
        /\ now - policy.window_seconds < CallSecond(i)
        /\ CallSecond(i) \div policy.sub_window_seconds
              < now \div policy.sub_window_seconds}

(* the keys the sum of a call at now reads *)
KeysSummed(now) ==
    {sliding_window_counter_key(user_id, t) :
        t \in sliding_window_counter_range(now - policy.window_seconds, now)}

(* C23: under sequential calls, every request admitted at second s is      *)
(* included in the sum of a later call at now whenever                     *)
(* now - window_seconds < s and s lies in an earlier sub-window than now:  *)
(* its key is unexpired, is among the keys summed, and the sum counts it.  *)
C23_AdmittedRequestsSummed ==
    \A p \in DOMAIN pc :
        (SumComplete(p) /\ clock \div TicksPerSecond = loc[p].now)
           => LET counted == AdmittedInEarlierSubWindows(loc[p].now) IN
              /\ \A i \in counted :
                    LET key == sliding_window_counter_key(user_id, CallSecond(i)) IN
                    /\ key \in DOMAIN strs
                    /\ key \in KeysSummed(loc[p].now)
              /\ loc[p].total_requests >= Cardinality(counted)

----------------------------------------------------------------------------
(* The keys of one identity and one algorithm, and everybody else's *)

Algorithms ==
    {"token_bucket", "leaky_bucket", "fixed_window",
     "sliding_window_log", "sliding_window_counter"}

(* other callers of the dependencies: the identity is any string *)
OtherIdentities == {"u2", "u1:0"}

(* lines 59, 113, 164, 207, 257: the keys algorithm alg builds for u *)
KeysOf(alg, u) ==
    CASE alg = "token_bucket" -> {token_bucket_key(u)}
      [] alg = "leaky_bucket" -> {leaky_bucket_key(u)}
      [] alg = "fixed_window" -> FixedWindowKeys(u)
      [] alg = "sliding_window_log" -> {sliding_window_log_key(u)}
      [] alg = "sliding_window_counter" -> SlidingWindowCounterKeys(u)
      [] OTHER -> {}

(* the keys of every other identity and of every other algorithm *)
ForeignKeys(alg, u) ==
    UNION {KeysOf(o[1], o[2]) :
             o \in (Algorithms \X ({u} \cup OtherIdentities)) \ {<<alg, u>>}}

(* all the store holds under key k *)
RecordAt(k) ==
    << IF k \in DOMAIN hashes THEN {hashes[k]} ELSE {},
       IF k \in DOMAIN strs THEN {strs[k]} ELSE {},
       IF k \in DOMAIN expiry THEN {expiry[k]} ELSE {},
       ZSet(k) >>

(* the algorithm a handler at this position is running *)
AlgorithmOf(position) ==
    CASE position \in {"tb_refill", "tb_hmset"} -> "token_bucket"
      [] position \in {"lb_leak", "lb_hmset"} -> "leaky_bucket"
      [] position \in {"fw_incr", "fw_expire"} -> "fixed_window"
      [] position \in {"swl_zcard", "swl_zadd"} -> "sliding_window_log"
      [] position \in {"swc_sum", "swc_incr", "swc_expire"} -> "sliding_window_counter"
      [] OTHER -> "none"

(* the records other callers have in the store; the run lets them write   *)
(* one record                                                              *)
OtherRecords ==
    UNION {KeysOf(o[1], o[2]) : o \in Algorithms \X OtherIdentities}
       \cap (DOMAIN hashes \cup DOMAIN strs)

(* line 80 in a call for identity b: a first call, allowed *)
other_caller_hmset(b) ==
    /\ token_bucket_key(b) \notin DOMAIN hashes
    /\ OtherRecords = {}
    /\ hashes' = [k \in DOMAIN hashes \cup {token_bucket_key(b)} |->
                    IF k = token_bucket_key(b)
                    THEN [tokens |-> policy.max_tokens - 1, last_refill_time |-> clock]
                    ELSE hashes[k]]
    /\ UNCHANGED <<clock, policy, strs, expiry, zsets, pc, loc>>

(* line 171 in a call for identity b *)
other_caller_fixed_window_incr(b) ==
    /\ fixed_window_key(b, clock) \notin DOMAIN strs
    /\ OtherRecords = {}
    /\ INCR(fixed_window_key(b, clock))
    /\ UNCHANGED <<clock, policy, hashes, expiry, zsets, pc, loc>>

(* line 275 in a call for identity b *)
other_caller_sliding_window_counter_incr(b) ==
    /\ sliding_window_counter_key(b, clock \div TicksPerSecond) \notin DOMAIN strs
    /\ OtherRecords = {}
    /\ INCR(sliding_window_counter_key(b, clock \div TicksPerSecond))
    /\ UNCHANGED <<clock, policy, hashes, expiry, zsets, pc, loc>>

(* SpecFrame: one handler makes sequential calls for user_id, each under   *)
(* the token bucket, the fixed window counter or the sliding window        *)
(* counter, while other callers write the records of other identities.     *)
FramePolicies ==
    [max_tokens : {1}, refill_rate : {1}, max_requests : {1},
     window_seconds : {1}, sub_window_seconds : {1}]

InitFrame == InitCommon(SeqProcs) /\ policy \in FramePolicies

(* the counter of the current sub-window grows with every call (line 275): *)
(* the run stops calling once it holds max_requests                        *)
SubWindowOpen ==
    Counter(sliding_window_counter_key(user_id, clock \div TicksPerSecond))
       < policy.max_requests

NextFrame ==
    \/ Tick
    \/ \E p \in SeqProcs : token_bucket_hmget(p) /\ UNCHANGED hist
    \/ \E p \in SeqProcs : token_bucket_decide(p) /\ UNCHANGED hist
    \/ \E p \in SeqProcs : token_bucket_hmset(p) /\ UNCHANGED hist
    \/ \E p \in SeqProcs : fixed_window_get(p) /\ UNCHANGED hist
    \/ \E p \in SeqProcs : fixed_window_incr(p) /\ UNCHANGED hist
    \/ \E p \in SeqProcs : fixed_window_expire(p) /\ UNCHANGED hist
    \/ \E p \in SeqProcs :
         SubWindowOpen /\ sliding_window_counter_start(p) /\ UNCHANGED hist
    \/ \E p \in SeqProcs : sliding_window_counter_get(p) /\ UNCHANGED hist
    \/ \E p \in SeqProcs : sliding_window_counter_decide(p) /\ UNCHANGED hist
    \/ \E p \in SeqProcs : sliding_window_counter_incr(p) /\ UNCHANGED hist
    \/ \E p \in SeqProcs : sliding_window_counter_expire(p) /\ UNCHANGED hist
    \/ \E b \in OtherIdentities : other_caller_hmset(b) /\ UNCHANGED hist
    \/ \E b \in OtherIdentities : other_caller_fixed_window_incr(b) /\ UNCHANGED hist
    \/ \E b \in OtherIdentities :
         other_caller_sliding_window_counter_incr(b) /\ UNCHANGED hist

SpecFrame == InitFrame /\ [][NextFrame]_vars

(* a step of handler p, and the algorithm it runs *)
HandlerStep(p) == pc'[p] # pc[p] \/ loc'[p] # loc[p]

StepAlgorithm(p) ==
    AlgorithmOf(IF pc[p] \in Ready THEN pc'[p] ELSE pc[p])

(* a step of another caller: no handler moves, the clock stands *)
OtherCallerStep == pc' = pc /\ loc' = loc /\ clock' = clock

(* C21: a call for user_id under one algorithm changes no record of any    *)
(* other identity or of any other algorithm, and what other callers write  *)
(* changes no record the call reads: the keys built from the algorithm's   *)
(* name and user_id are nobody else's.                                     *)
C21_CallTouchesOwnKeysOnly ==
    [][/\ \A p \in DOMAIN pc :
            HandlerStep(p) =>
               \A k \in ForeignKeys(StepAlgorithm(p), user_id) :
                  RecordAt(k)' = RecordAt(k)
       /\ OtherCallerStep =>
            \A alg \in Algorithms : \A k \in KeysOf(alg, user_id) :
               RecordAt(k)' = RecordAt(k)]_vars

C21_Witness ==
    /\ pc[1] = "allowed"
    /\ token_bucket_key(user_id) \in DOMAIN hashes
    /\ \E k \in FixedWindowKeys(user_id) : k \in DOMAIN strs
    /\ \E k \in SlidingWindowCounterKeys(user_id) : k \in DOMAIN strs
    /\ \E k \in FixedWindowKeys("u1:0") : k \in DOMAIN strs

====
